---- MODULE Spec2Model ----
(***************************************************************************)
(* Model of plot_hsr.py: the command-line entry point, the loading of the  *)
(* session document, the event replay of process_stimulation_data and the  *)
(* part of plot_stimulation_data that bounds the rendering.                *)
(*                                                                         *)
(* Representation of Python/JSON values:                                   *)
(*   - an optional key of a JSON object is a set with at most one element  *)
(*     ({} = key absent); dict.get(key, default) is Get(opt, default);     *)
(*   - an event's "value" is a tagged JSON value (JBool, JNum, JList);     *)
(*   - a plot_data dict keeps its two parallel lists 'time' and 'value';   *)
(*   - boost.duration is held in tenths of a second (the default 0.1 s is  *)
(*     1), and DurationMs is the code's duration * 1000;                   *)
(*   - the two-element lists indexed 0/1 in Python are indexed 1/2 here.   *)
(***************************************************************************)
EXTENDS Integers, Sequences, FiniteSets, TLC

VARIABLES
  argc,                   \* len(sys.argv)
  file,                   \* the input file: [status, json]
  pc,                     \* position of the process
  data,                   \* the loaded document (json.load)
  state,                  \* the state dict of process_stimulation_data
  current_boost_channels, \* the running copy of boost.channels
  all_events,             \* the events sorted by timestamp
  idx,                    \* number of events of all_events already consumed
  total_duration_ms,      \* session end computed by process_stimulation_data
  plot_total_duration_ms, \* session end recomputed by plot_stimulation_data
  stdout,                 \* the lines printed, by kind
  image_written,          \* whether plt.savefig wrote the image
  exit_status             \* {} while running, {n} once the process has exited

vars == <<argc, file, pc, data, state, current_boost_channels, all_events, idx,
          total_duration_ms, plot_total_duration_ms, stdout, image_written,
          exit_status>>

(***************************************************************************)
(* Bounds of the checked inputs.                                           *)
(***************************************************************************)
MaxEvents == 3

(***************************************************************************)
(* Python helpers.                                                         *)
(***************************************************************************)
Get(opt, default) == IF opt = {} THEN default ELSE CHOOSE x \in opt : TRUE

Max2(a, b) == IF a >= b THEN a ELSE b

Min2(a, b) == IF a <= b THEN a ELSE b

Last(s) == s[Len(s)]

JBool(b) == [bool |-> b, num |-> 0, list |-> <<>>]

JNum(n) == [bool |-> FALSE, num |-> n, list |-> <<>>]

JList(l) == [bool |-> FALSE, num |-> 0, list |-> l]

\* truthiness of a mode identifier (if g1_initial_mode:)
Truthy(m) == m # 0

GenKeys == <<"g1", "g2">>

\* state['boost'] keys
BoostKeys == {"shockMode", "channels", "duration", "offset"}

\* mutant: the duration is added to the timestamp without the conversion to ms
DurationMs_Unscaled(duration) == duration

\* duration_ms = state['boost']['duration'] * 1000, the duration being held in
\* tenths of a second
DurationMs(duration) == (duration * 1000) \div 10

EmptyPlot == [time |-> <<>>, value |-> <<>>]

\* plot_data['time'].append(t); plot_data['value'].append(v)
AppendSample(pd, t, v) == [time |-> Append(pd.time, t), value |-> Append(pd.value, v)]

\* zip(time_data, value_data)
Zip(pd) == [i \in 1..Min2(Len(pd.time), Len(pd.value)) |-> <<pd.time[i], pd.value[i]>>]

\* zip(*sorted_pairs)
Unzip(pairs) == [time |-> [i \in 1..Len(pairs) |-> pairs[i][1]],
                 value |-> [i \in 1..Len(pairs) |-> pairs[i][2]]]

\* Python's order on (time, value) tuples
PairLess(p, q) == p[1] < q[1] \/ (p[1] = q[1] /\ p[2] < q[2])

RECURSIVE InsertPair(_, _)
InsertPair(p, s) ==
  IF s = <<>> THEN <<p>>
  ELSE IF PairLess(p, Head(s)) THEN <<p>> \o s
  ELSE <<Head(s)>> \o InsertPair(p, Tail(s))

\* sorted(zip(time_data, value_data)): stable, on the whole tuple
RECURSIVE SortedPairs(_)
SortedPairs(s) ==
  IF s = <<>> THEN <<>>
  ELSE InsertPair(Last(s), SortedPairs(SubSeq(s, 1, Len(s) - 1)))

\* mutant: the lists are returned as the loop left them
SortPlot_Unsorted(pd) == pd

\* lines 200-206 / 208-214 for one plot_data dict
SortPlot(pd) ==
  LET sorted_pairs == SortedPairs(Zip(pd))
  IN  IF sorted_pairs # <<>> THEN Unzip(sorted_pairs) ELSE EmptyPlot

\* key=lambda x: x.get('ts', 0)
TsKey(event) == Get(event.ts, 0)

RECURSIVE InsertByTs(_, _)
InsertByTs(e, s) ==
  IF s = <<>> THEN <<e>>
  ELSE IF TsKey(e) < TsKey(Head(s)) THEN <<e>> \o s
  ELSE <<Head(s)>> \o InsertByTs(e, Tail(s))

\* mutant: the events are replayed in the order of the input list
SortedByTs_InputOrder(s) == s

\* sorted(events, key=...): stable, ties keep the input order
RECURSIVE SortedByTs(_)
SortedByTs(s) ==
  IF s = <<>> THEN <<>>
  ELSE InsertByTs(Last(s), SortedByTs(SubSeq(s, 1, Len(s) - 1)))

(***************************************************************************)
(* process_stimulation_data: state initialization (lines 51-106).          *)
(***************************************************************************)
\* the dict literal of lines 52-66
StateLiteral ==
  [g1 |-> [base_intensity |-> 0, plot_data |-> EmptyPlot,
           adjust_value |-> 0, adjust_plot_data |-> EmptyPlot],
   g2 |-> [base_intensity |-> 0, plot_data |-> EmptyPlot,
           adjust_value |-> 0, adjust_plot_data |-> EmptyPlot],
   boost |-> [shockMode |-> FALSE, channels |-> <<FALSE, FALSE>>,
              duration |-> 1, offset |-> 0],
   modes |-> [g1 |-> <<>>, g2 |-> <<>>],
   fire_events |-> <<>>]

\* mutant: the samples at t=0 carry the values of the dict literal, not the
\* values loaded from the initial context
SeedGenerator_SeedsLiteral(gen_ctx) ==
  [base_intensity |-> Get(gen_ctx.intensity, 0),
   plot_data |-> AppendSample(EmptyPlot, 0, 0),
   adjust_value |-> Get(gen_ctx.adjust, 50),
   adjust_plot_data |-> AppendSample(EmptyPlot, 0, 0)]

\* lines 70-85 for one generator: base values and the samples at t=0
SeedGenerator(gen_ctx) ==
  LET base_intensity == Get(gen_ctx.intensity, 0)
      adjust_value == Get(gen_ctx.adjust, 50)
  IN  [base_intensity |-> base_intensity,
       plot_data |-> AppendSample(EmptyPlot, 0, base_intensity),
       adjust_value |-> adjust_value,
       adjust_plot_data |-> AppendSample(EmptyPlot, 0, adjust_value)]

\* lines 88-91: every key of state['boost'] present in initial_boost overrides it
SeedBoost(default, initial_boost) ==
  [shockMode |-> Get(initial_boost.shockMode, default.shockMode),
   channels |-> Get(initial_boost.channels, default.channels),
   duration |-> Get(initial_boost.duration, default.duration),
   offset |-> Get(initial_boost.offset, default.offset)]

\* lines 94-99 for one generator: the initial entry of the mode timeline
SeedModes(gen_ctx) ==
  IF gen_ctx.mode # {} /\ Truthy(Get(gen_ctx.mode, 0))
  THEN <<[ts |-> 0, mode |-> Get(gen_ctx.mode, 0)]>>
  ELSE <<>>

\* lines 52-99
InitialState(initial_context) ==
  [g1 |-> SeedGenerator(initial_context.generator1),
   g2 |-> SeedGenerator(initial_context.generator2),
   boost |-> SeedBoost(StateLiteral.boost, initial_context.boost),
   modes |-> [g1 |-> SeedModes(initial_context.generator1),
              g2 |-> SeedModes(initial_context.generator2)],
   fire_events |-> StateLiteral.fire_events]

(***************************************************************************)
(* process_stimulation_data: the body of the event loop (lines 108-182).   *)
(* A handler maps the loop's locals, loc = [state, current_boost_channels],*)
(* and the event to the locals after the iteration.                        *)
(***************************************************************************)
\* the event's timestamp, once line 114 has let the event through
Ts(event) == Get(event.ts, 0)

\* mutant: an event without timestamp is replayed, at the time of its sort key
Malformed_PathOnly(event) == event.path = <<>>

\* line 114: if ts is None or not path: continue
Malformed(event) == event.ts = {} \/ event.path = <<>>

\* mutant: line 121 is missing, the running copy goes stale
OnChannels_StaleCopy(loc, event) ==
  [loc EXCEPT !.state.boost.channels = event.value.list]

\* lines 120-122: boost.channels is replaced, and so is the running copy
OnChannels(loc, event) ==
  [state |-> [loc.state EXCEPT !.boost.channels = event.value.list],
   current_boost_channels |-> event.value.list]

\* mutant: the transition samples every channel, the mask is not consulted
ShockSample_IgnoresMask(s, i, ts, is_entering_shock) ==
  LET gen == s[GenKeys[i]]
  IN  IF is_entering_shock
      THEN [gen EXCEPT !.plot_data = AppendSample(@, ts, 0)]
      ELSE [gen EXCEPT !.plot_data = AppendSample(@, ts, gen.base_intensity)]

\* lines 129-138 for the generator of index i
ShockSample(s, i, ts, is_entering_shock) ==
  LET gen == s[GenKeys[i]]
  IN  IF s.boost.channels[i]
      THEN IF is_entering_shock
           THEN [gen EXCEPT !.plot_data = AppendSample(@, ts, 0)]
           ELSE [gen EXCEPT !.plot_data = AppendSample(@, ts, gen.base_intensity)]
      ELSE gen

\* lines 125-138: shockMode changes value
OnShockTransition(loc, event) ==
  LET value == event.value.bool
      s == [loc.state EXCEPT !.boost.shockMode = value]
  IN  [loc EXCEPT !.state = [s EXCEPT !.g1 = ShockSample(s, 1, Ts(event), value),
                                      !.g2 = ShockSample(s, 2, Ts(event), value)]]

\* line 140: state['boost'][prop] = value
OnBoostAssign(loc, event) ==
  LET prop == event.path[2]
  IN  [loc EXCEPT !.state.boost[prop] =
         IF prop = "shockMode" THEN event.value.bool ELSE event.value.num]

\* mutant: the ceiling of line 159 is missing
BoostedVal_Unclamped(base_intensity, offset) == base_intensity + offset

\* line 159
BoostedVal(base_intensity, offset) == Min2(100, base_intensity + offset)

\* mutant: the pulse returns to base_intensity, not to the last sample's value
FirePulse_ReturnsToBase(s, i, ts) ==
  LET gen == s[GenKeys[i]]
  IN  IF s.boost.channels[i]
      THEN IF s.boost.shockMode
           THEN [gen EXCEPT !.plot_data =
                   AppendSample(AppendSample(@, ts, gen.base_intensity),
                                ts + DurationMs(s.boost.duration), 0)]
           ELSE [gen EXCEPT !.plot_data =
                   AppendSample(AppendSample(@, ts, BoostedVal(gen.base_intensity,
                                                                s.boost.offset)),
                                ts + 1, gen.base_intensity)]
      ELSE gen

\* lines 148-164 for the generator of index i
FirePulse(s, i, ts) ==
  LET gen == s[GenKeys[i]]
  IN  IF s.boost.channels[i]
      THEN IF s.boost.shockMode
           THEN LET duration_ms == DurationMs(s.boost.duration)
                IN  [gen EXCEPT !.plot_data =
                       AppendSample(AppendSample(@, ts, gen.base_intensity),
                                    ts + duration_ms, 0)]
           ELSE LET boosted_val == BoostedVal(gen.base_intensity, s.boost.offset)
                    current_val == Last(gen.plot_data.value)
                IN  [gen EXCEPT !.plot_data =
                       AppendSample(AppendSample(@, ts, boosted_val),
                                    ts + 1, current_val)]
      ELSE gen

\* line 145: the marker of a fire action
FireMarker(loc, event) ==
  [ts |-> Ts(event), channels |-> loc.current_boost_channels]

\* lines 143-164
OnFire(loc, event) ==
  LET s == [loc.state EXCEPT !.fire_events = Append(@, FireMarker(loc, event))]
  IN  [loc EXCEPT !.state = [s EXCEPT !.g1 = FirePulse(s, 1, Ts(event)),
                                      !.g2 = FirePulse(s, 2, Ts(event))]]

\* line 168
GenKeyOf(path0) == IF path0 = "generator1" THEN "g1" ELSE "g2"

\* line 173: the index 0 if gen_key == 'g1' else 1, here 1 or 2
ChannelIndex(gen_key) == IF gen_key = "g1" THEN 1 ELSE 2

\* mutant: the channel mask is not consulted
IsInShock_IgnoresMask(s, gen_key) == s.boost.shockMode

\* line 173
IsInShock(s, gen_key) == s.boost.shockMode /\ s.boost.channels[ChannelIndex(gen_key)]

\* mutant: a command given to a shocked channel is dropped, not remembered
OnIntensity_DropsWhenShocked(loc, event) ==
  LET gen_key == GenKeyOf(event.path[1])
      value == event.value.num
  IN  IF ~IsInShock(loc.state, gen_key)
      THEN [loc EXCEPT !.state[gen_key].base_intensity = value,
                      !.state[gen_key].plot_data = AppendSample(@, Ts(event), value)]
      ELSE loc

\* lines 170-176
OnIntensity(loc, event) ==
  LET gen_key == GenKeyOf(event.path[1])
      value == event.value.num
      s == [loc.state EXCEPT ![gen_key].base_intensity = value]
  IN  IF ~IsInShock(s, gen_key)
      THEN [loc EXCEPT !.state =
              [s EXCEPT ![gen_key].plot_data = AppendSample(@, Ts(event), value)]]
      ELSE [loc EXCEPT !.state = s]

\* lines 177-178
OnMode(loc, event) ==
  LET gen_key == GenKeyOf(event.path[1])
  IN  [loc EXCEPT !.state.modes[gen_key] =
         Append(@, [ts |-> Ts(event), mode |-> event.value.num])]

\* lines 179-182
OnAdjust(loc, event) ==
  LET gen_key == GenKeyOf(event.path[1])
      value == event.value.num
  IN  [loc EXCEPT !.state[gen_key].adjust_value = value,
                  !.state[gen_key].adjust_plot_data = AppendSample(@, Ts(event), value)]

\* lines 119 and 169: prop = path[1] raises IndexError on a one-segment path
Raises(event) ==
  /\ ~Malformed(event)
  /\ event.path[1] \in {"boost", "generator1", "generator2"}
  /\ Len(event.path) < 2

\* lines 109-182: one iteration of the loop, for an event that does not raise
DispatchEvent(loc, event) ==
  IF Malformed(event) THEN loc
  ELSE IF event.path[1] = "boost" THEN
    LET prop == event.path[2]
    IN  IF prop = "channels" THEN OnChannels(loc, event)
        ELSE IF prop \in BoostKeys THEN
          IF prop = "shockMode" /\ loc.state.boost.shockMode # event.value.bool
          THEN OnShockTransition(loc, event)
          ELSE OnBoostAssign(loc, event)
        ELSE IF prop = "fire" /\ event.type = "action" THEN OnFire(loc, event)
        ELSE loc
  ELSE IF event.path[1] \in {"generator1", "generator2"} THEN
    LET prop == event.path[2]
    IN  IF prop = "intensity" THEN OnIntensity(loc, event)
        ELSE IF prop = "mode" THEN OnMode(loc, event)
        ELSE IF prop = "adjust" THEN OnAdjust(loc, event)
        ELSE loc
  ELSE loc

(***************************************************************************)
(* process_stimulation_data: session end and finalization (lines 185-214). *)
(***************************************************************************)
RECURSIVE MaxTsKey(_)
\* max(event.get('ts', 0) for event in data['data']), for a non-empty list
MaxTsKey(events) ==
  IF Len(events) = 1 THEN TsKey(events[1])
  ELSE Max2(TsKey(events[1]), MaxTsKey(Tail(events)))

\* lines 186-189 and 245-248
TotalDurationMs(doc) ==
  LET max_ts_in_data == IF doc.data # <<>> THEN MaxTsKey(doc.data) ELSE 0
  IN  Max2(Get(doc.metadata.duration, 0), max_ts_in_data)

\* lines 193-195 for one generator
ExtendGenerator(gen, total) ==
  IF gen.adjust_plot_data.time # <<>> /\ Last(gen.adjust_plot_data.time) < total
  THEN [gen EXCEPT !.adjust_plot_data = AppendSample(@, total, gen.adjust_value)]
  ELSE gen

\* lines 200-214 for one generator
SortGenerator(gen) ==
  [gen EXCEPT !.plot_data = SortPlot(@), !.adjust_plot_data = SortPlot(@)]

(***************************************************************************)
(* process_stimulation_data as a function of the document: the stages      *)
(* above composed, as the actions below run them one step at a time.       *)
(***************************************************************************)
\* mutant: the running copy is taken from the dict literal, before the initial
\* context's boost fields are loaded
InitialLoc_LiteralChannels(initial_context) ==
  [state |-> InitialState(initial_context),
   current_boost_channels |-> StateLiteral.boost.channels]

\* lines 52-99 and 106: the locals as the loop starts
InitialLoc(initial_context) ==
  [state |-> InitialState(initial_context),
   current_boost_channels |-> InitialState(initial_context).boost.channels]

\* lines 108-182: the loop over a list of events none of which raises
RECURSIVE ReplayLoop(_, _)
ReplayLoop(loc, events) ==
  IF events = <<>> THEN loc
  ELSE ReplayLoop(DispatchEvent(loc, Head(events)), Tail(events))

\* lines 52-182: the locals as the loop ends
Dispatched(doc) == ReplayLoop(InitialLoc(doc.initialContext), SortedByTs(doc.data))

\* lines 185-216: the state returned, from the state the loop leaves
Finalize(s, doc) ==
  [s EXCEPT !.g1 = SortGenerator(ExtendGenerator(@, TotalDurationMs(doc))),
            !.g2 = SortGenerator(ExtendGenerator(@, TotalDurationMs(doc)))]

\* lines 41-216: the state process_stimulation_data returns
ProcessStimulationData(doc) == Finalize(Dispatched(doc).state, doc)

(***************************************************************************)
(* The process: __main__, plot_stimulation_data, process_stimulation_data. *)
(***************************************************************************)
NoContext ==
  [generator1 |-> [intensity |-> {}, adjust |-> {}, mode |-> {}],
   generator2 |-> [intensity |-> {}, adjust |-> {}, mode |-> {}],
   boost |-> [shockMode |-> {}, channels |-> {}, duration |-> {}, offset |-> {}]]

\* the document {} : no metadata, no initialContext, no data
NoDoc == [metadata |-> [duration |-> {}], initialContext |-> NoContext, data |-> <<>>]

\* the locals of the event loop
Loc == [state |-> state, current_boost_channels |-> current_boost_channels]

\* where the loop stands once n events are consumed
LoopPc(n, events) == IF n < Len(events) THEN "loop" ELSE "bound"

\* lines 329-334
Main ==
  /\ pc = "main"
  /\ IF argc < 3
     THEN /\ stdout' = Append(stdout, "usage")
          /\ exit_status' = {1}
          /\ pc' = "exit"
     ELSE /\ pc' = "load"
          /\ UNCHANGED <<stdout, exit_status>>
  /\ UNCHANGED <<argc, file, data, state, current_boost_channels, all_events, idx,
                 total_duration_ms, plot_total_duration_ms, image_written>>

\* lines 230-232: the file is read and decoded
LoadFile ==
  /\ pc = "load"
  /\ file.status = "ok"
  /\ data' = file.json
  /\ pc' = "init"
  /\ UNCHANGED <<argc, file, state, current_boost_channels, all_events, idx,
                 total_duration_ms, plot_total_duration_ms, stdout, image_written,
                 exit_status>>

\* lines 233-235, then the end of __main__: the interpreter exits with status 0
LoadNotFound ==
  /\ pc = "load"
  /\ file.status = "missing"
  /\ stdout' = Append(stdout, "error: file not found")
  /\ exit_status' = {0}
  /\ pc' = "exit"
  /\ UNCHANGED <<argc, file, data, state, current_boost_channels, all_events, idx,
                 total_duration_ms, plot_total_duration_ms, image_written>>

\* lines 236-238, then the end of __main__: the interpreter exits with status 0
LoadDecodeError ==
  /\ pc = "load"
  /\ file.status = "malformed"
  /\ stdout' = Append(stdout, "error: decoding JSON")
  /\ exit_status' = {0}
  /\ pc' = "exit"
  /\ UNCHANGED <<argc, file, data, state, current_boost_channels, all_events, idx,
                 total_duration_ms, plot_total_duration_ms, image_written>>

\* lines 52-106
Initialize ==
  /\ pc = "init"
  /\ state' = InitialLoc(data.initialContext).state
  /\ all_events' = SortedByTs(data.data)
  /\ current_boost_channels' = InitialLoc(data.initialContext).current_boost_channels
  /\ idx' = 0
  /\ pc' = LoopPc(0, all_events')
  /\ UNCHANGED <<argc, file, data, total_duration_ms, plot_total_duration_ms, stdout,
                 image_written, exit_status>>

\* lines 108-182: one iteration; an uncaught IndexError ends the process (status 1)
ProcessEvent ==
  /\ pc = "loop"
  /\ LET event == all_events[idx + 1]
     IN  IF Raises(event)
         THEN /\ exit_status' = {1}
              /\ pc' = "exit"
              /\ UNCHANGED <<state, current_boost_channels, idx>>
         ELSE /\ state' = DispatchEvent(Loc, event).state
              /\ current_boost_channels' = DispatchEvent(Loc, event).current_boost_channels
              /\ idx' = idx + 1
              /\ pc' = LoopPc(idx + 1, all_events)
              /\ UNCHANGED exit_status
  /\ UNCHANGED <<argc, file, data, all_events, total_duration_ms,
                 plot_total_duration_ms, stdout, image_written>>

\* lines 185-189
ResolveBound ==
  /\ pc = "bound"
  /\ total_duration_ms' = TotalDurationMs(data)
  /\ pc' = "extend"
  /\ UNCHANGED <<argc, file, data, state, current_boost_channels, all_events, idx,
                 plot_total_duration_ms, stdout, image_written, exit_status>>

\* lines 191-195
ExtendAdjust ==
  /\ pc = "extend"
  /\ state' = [state EXCEPT !.g1 = ExtendGenerator(@, total_duration_ms),
                            !.g2 = ExtendGenerator(@, total_duration_ms)]
  /\ pc' = "sort"
  /\ UNCHANGED <<argc, file, data, current_boost_channels, all_events, idx,
                 total_duration_ms, plot_total_duration_ms, stdout, image_written,
                 exit_status>>

\* lines 198-216
SortPlotData ==
  /\ pc = "sort"
  /\ state' = [state EXCEPT !.g1 = SortGenerator(@), !.g2 = SortGenerator(@)]
  /\ pc' = "plot"
  /\ UNCHANGED <<argc, file, data, current_boost_channels, all_events, idx,
                 total_duration_ms, plot_total_duration_ms, stdout, image_written,
                 exit_status>>

\* lines 244-326, then the end of __main__
Plot ==
  /\ pc = "plot"
  /\ plot_total_duration_ms' = TotalDurationMs(data)
  /\ stdout' = stdout \o <<"saving plot", "done">>
  /\ image_written' = TRUE
  /\ exit_status' = {0}
  /\ pc' = "exit"
  /\ UNCHANGED <<argc, file, data, state, current_boost_channels, all_events, idx,
                 total_duration_ms>>

Next ==
  \/ Main
  \/ LoadFile
  \/ LoadNotFound
  \/ LoadDecodeError
  \/ Initialize
  \/ ProcessEvent
  \/ ResolveBound
  \/ ExtendAdjust
  \/ SortPlotData
  \/ Plot

(***************************************************************************)
(* The inputs: the command line and the file it names.                     *)
(***************************************************************************)
Ev(ts, path, value, type) == [ts |-> ts, path |-> path, value |-> value, type |-> type]

\* the event lists of at most MaxEvents events over a universe of events
EventLists(universe) == UNION {[1..n -> universe] : n \in 0..MaxEvents}

Docs(durations, contexts, universe) ==
  {[metadata |-> [duration |-> d], initialContext |-> c, data |-> l] :
     d \in durations, c \in contexts, l \in EventLists(universe)}

Files(docs) ==
  {[status |-> "missing", json |-> NoDoc], [status |-> "malformed", json |-> NoDoc]}
  \cup {[status |-> "ok", json |-> doc] : doc \in docs}

\* the process as it starts, for the given input documents
InitWith(docs) ==
  /\ \/ argc = 2 /\ file = [status |-> "missing", json |-> NoDoc]
     \/ argc = 3 /\ file \in Files(docs)
  /\ pc = "main"
  /\ data = NoDoc
  /\ state = StateLiteral
  /\ current_boost_channels = StateLiteral.boost.channels
  /\ all_events = <<>>
  /\ idx = 0
  /\ total_duration_ms = 0
  /\ plot_total_duration_ms = 0
  /\ stdout = <<>>
  /\ image_written = FALSE
  /\ exit_status = {}

\* an initial context giving both intensities and the four boost fields
Context(intensity1, intensity2, shockMode, channels, duration, offset) ==
  [generator1 |-> [intensity |-> intensity1, adjust |-> {}, mode |-> {}],
   generator2 |-> [intensity |-> intensity2, adjust |-> {}, mode |-> {}],
   boost |-> [shockMode |-> shockMode, channels |-> channels,
              duration |-> duration, offset |-> offset]]

(***************************************************************************)
(* Spec: the replay of boost and intensity events.  Most events carry the  *)
(* same timestamp, so that the order of the input list decides the order   *)
(* of their replay; an earlier and a later one make the sorting matter.    *)
(***************************************************************************)
ReplayContexts ==
  { NoContext,
    [Context({60}, {100}, {}, {<<TRUE, TRUE>>}, {}, {50})
       EXCEPT !.generator1.adjust = {40}],
    Context({60}, {}, {TRUE}, {<<TRUE, FALSE>>}, {2}, {}) }

ReplayEvents ==
  { Ev({1}, <<"boost", "fire">>, JNum(0), "action"),
    Ev({1}, <<"boost", "shockMode">>, JBool(TRUE), "state"),
    Ev({1}, <<"boost", "shockMode">>, JBool(FALSE), "state"),
    Ev({1}, <<"boost", "channels">>, JList(<<TRUE, FALSE>>), "state"),
    Ev({1}, <<"boost", "channels">>, JList(<<FALSE, TRUE>>), "state"),
    Ev({1}, <<"boost", "offset">>, JNum(50), "state"),
    Ev({1}, <<"generator1", "intensity">>, JNum(80), "state"),
    Ev({1}, <<"generator2", "intensity">>, JNum(30), "state"),
    Ev({0}, <<"generator1", "intensity">>, JNum(20), "state"),
    Ev({2}, <<"generator1", "adjust">>, JNum(30), "state"),
    Ev({2}, <<"boost", "fire">>, JNum(0), "action") }

Init == InitWith(Docs({{}}, ReplayContexts, ReplayEvents))

Spec == Init /\ [][Next]_vars

(***************************************************************************)
(* SpecOrder: event lists that are not given in timestamp order and that   *)
(* hold malformed events (no timestamp, empty path).                       *)
(***************************************************************************)
OrderContexts ==
  { NoContext,
    Context({60}, {90}, {}, {<<TRUE, TRUE>>}, {}, {50}) }

OrderEvents ==
  { Ev({1}, <<"boost", "fire">>, JNum(0), "action"),
    Ev({1}, <<"generator1", "intensity">>, JNum(80), "state"),
    Ev({0}, <<"generator1", "intensity">>, JNum(20), "state"),
    Ev({0}, <<"boost", "channels">>, JList(<<TRUE, FALSE>>), "state"),
    Ev({2}, <<"generator2", "adjust">>, JNum(30), "state"),
    Ev({2}, <<"generator2", "mode">>, JNum(7), "state"),
    Ev({}, <<"generator1", "intensity">>, JNum(33), "state"),
    Ev({1}, <<>>, JNum(44), "state") }

InitOrder == InitWith(Docs({{}}, OrderContexts, OrderEvents))

SpecOrder == InitOrder /\ [][Next]_vars

(***************************************************************************)
(* SpecBound: documents with and without a declared duration, and events   *)
(* before, at and after time 0, for the session end.                       *)
(***************************************************************************)
BoundEvents ==
  { Ev({-1}, <<"generator1", "adjust">>, JNum(30), "state"),
    Ev({-3}, <<"generator2", "mode">>, JNum(7), "state"),
    Ev({0}, <<"generator1", "intensity">>, JNum(20), "state"),
    Ev({2}, <<"generator2", "adjust">>, JNum(70), "state"),
    Ev({}, <<"generator1", "intensity">>, JNum(33), "state"),
    Ev({4}, <<>>, JNum(44), "state") }

InitBound == InitWith(Docs({{}, {-2}, {0}, {3}}, {NoContext}, BoundEvents))

SpecBound == InitBound /\ [][Next]_vars

(***************************************************************************)
(* SpecPulse: longer replays over a few boost events, from a context that  *)
(* starts in shock mode: long enough for a channel to leave the mask, miss *)
(* the end of the shock, and be selected again when a fire comes.          *)
(***************************************************************************)
PulseContexts == { Context({60}, {90}, {TRUE}, {<<TRUE, FALSE>>}, {2}, {50}) }

PulseEvents ==
  { Ev({1}, <<"generator1", "intensity">>, JNum(80), "state"),
    Ev({1}, <<"boost", "channels">>, JList(<<FALSE, TRUE>>), "state"),
    Ev({1}, <<"boost", "channels">>, JList(<<TRUE, FALSE>>), "state"),
    Ev({1}, <<"boost", "shockMode">>, JBool(FALSE), "state"),
    Ev({1}, <<"boost", "duration">>, JNum(3), "state"),
    Ev({1}, <<"boost", "fire">>, JNum(0), "action") }

\* the event lists of at most MaxEvents + 2 events over a universe of events
LongEventLists(universe) == UNION {[1..n -> universe] : n \in 0..(MaxEvents + 2)}

InitPulse ==
  InitWith({[metadata |-> [duration |-> {}], initialContext |-> c, data |-> l] :
              c \in PulseContexts, l \in LongEventLists(PulseEvents)})

SpecPulse == InitPulse /\ [][Next]_vars

(***************************************************************************)
(* SpecAdjust: adjust events at and before the session end, several at the *)
(* same time, with and without a declared duration; no negative input.     *)
(***************************************************************************)
AdjustContexts ==
  { NoContext, [NoContext EXCEPT !.generator1.adjust = {40}] }

AdjustEvents ==
  { Ev({2}, <<"generator1", "adjust">>, JNum(70), "state"),
    Ev({2}, <<"generator1", "adjust">>, JNum(30), "state"),
    Ev({1}, <<"generator1", "adjust">>, JNum(20), "state"),
    Ev({3}, <<"generator2", "adjust">>, JNum(60), "state"),
    Ev({0}, <<"generator2", "adjust">>, JNum(10), "state"),
    Ev({4}, <<"generator1", "intensity">>, JNum(80), "state") }

InitAdjust == InitWith(Docs({{}, {3}}, AdjustContexts, AdjustEvents))

SpecAdjust == InitAdjust /\ [][Next]_vars

(***************************************************************************)
(* SpecModes: initial contexts with and without a mode, one of the mode    *)
(* identifiers being 0, and mode events in and out of a shock, one of them *)
(* before time 0.                                                          *)
(***************************************************************************)
ModeContexts ==
  { NoContext,
    [Context({60}, {}, {TRUE}, {<<TRUE, TRUE>>}, {}, {})
       EXCEPT !.generator1.mode = {3}, !.generator2.mode = {0}],
    [NoContext EXCEPT !.generator2.mode = {5}] }

ModeEvents ==
  { Ev({1}, <<"generator1", "mode">>, JNum(7), "state"),
    Ev({2}, <<"generator1", "mode">>, JNum(0), "state"),
    Ev({1}, <<"generator2", "mode">>, JNum(4), "state"),
    Ev({-3}, <<"generator1", "mode">>, JNum(9), "state"),
    Ev({1}, <<"boost", "shockMode">>, JBool(FALSE), "state") }

InitModes == InitWith(Docs({{}}, ModeContexts, ModeEvents))

SpecModes == InitModes /\ [][Next]_vars

(***************************************************************************)
(* SpecUnknown: events whose path addresses nothing the replay knows,      *)
(* among events it does know.                                              *)
(***************************************************************************)
UnknownContexts == { Context({60}, {90}, {}, {<<TRUE, TRUE>>}, {}, {50}) }

UnknownEvents ==
  { Ev({1}, <<"generator3", "intensity">>, JNum(80), "state"),
    Ev({1}, <<"other">>, JNum(80), "state"),
    Ev({1}, <<"generator1", "frequency">>, JNum(5), "state"),
    Ev({1}, <<"boost", "gain">>, JNum(5), "state"),
    Ev({1}, <<"boost", "fire">>, JNum(0), "state"),
    Ev({1}, <<"boost">>, JNum(1), "state"),
    Ev({1}, <<"generator2">>, JNum(1), "state"),
    Ev({1}, <<"generator1", "intensity">>, JNum(80), "state"),
    Ev({1}, <<"boost", "fire">>, JNum(0), "action") }

InitUnknown == InitWith(Docs({{}}, UnknownContexts, UnknownEvents))

SpecUnknown == InitUnknown /\ [][Next]_vars

(***************************************************************************)
(* Vocabulary of the properties.                                           *)
(***************************************************************************)
Generators == {"g1", "g2"}

\* process_stimulation_data has returned its state
Finalized == pc = "plot" \/ (pc = "exit" /\ image_written)

\* the event the next iteration of the loop consumes
CurrentEvent == all_events[idx + 1]

\* the event the last iteration of the loop consumed
LastEvent == all_events[idx]

\* an iteration of the loop has just run
AfterEvent == pc \in {"loop", "bound"} /\ idx > 0

NonDecreasing(seq) == \A i \in 1..(Len(seq) - 1) : seq[i] <= seq[i + 1]

\* the samples of a plot_data dict, as a sequence of <<time, value>>
Samples(pd) == [i \in 1..Len(pd.time) |-> <<pd.time[i], pd.value[i]>>]

HasSample(pd, t, v) == \E i \in 1..Len(pd.time) : pd.time[i] = t /\ pd.value[i] = v

IsFireAction(event) ==
  /\ ~Malformed(event)
  /\ Len(event.path) >= 2
  /\ event.path[1] = "boost"
  /\ event.path[2] = "fire"
  /\ event.type = "action"

IsIntensityOf(event, generator) ==
  /\ ~Malformed(event)
  /\ Len(event.path) >= 2
  /\ event.path[1] = generator
  /\ event.path[2] = "intensity"

(***************************************************************************)
(* C1: once process_stimulation_data has returned, each channel's series   *)
(* and adjust series are non-decreasing in time, also when a fire pulse    *)
(* appended a sample later than the events replayed after it.              *)
(***************************************************************************)
C1_FinalizedSorted ==
  Finalized =>
    \A g \in Generators :
      /\ NonDecreasing(state[g].plot_data.time)
      /\ NonDecreasing(state[g].adjust_plot_data.time)

\* a finalized run whose loop left a series out of order behind a fire pulse
C1_Witness ==
  /\ Finalized
  /\ state.fire_events # <<>>
  /\ \E g \in Generators : ~NonDecreasing(Dispatched(data).state[g].plot_data.time)
  /\ \A g \in Generators : NonDecreasing(state[g].plot_data.time)

(***************************************************************************)
(* C2: an intensity event replayed while shock mode is active and the      *)
(* channel is selected by the mask appends no sample to the channel's      *)
(* series and sets its base_intensity; in every other override state it    *)
(* sets base_intensity and appends (ts, value).                            *)
(***************************************************************************)
C2_IntensityStep(generator, g, i) ==
  (pc = "loop" /\ IsIntensityOf(CurrentEvent, generator)) =>
    LET ts == Get(CurrentEvent.ts, 0)
        value == CurrentEvent.value.num
    IN  /\ state'[g].base_intensity = value
        /\ IF state.boost.shockMode /\ state.boost.channels[i]
           THEN state'[g].plot_data = state[g].plot_data
           ELSE /\ state'[g].plot_data.time = Append(state[g].plot_data.time, ts)
                /\ state'[g].plot_data.value = Append(state[g].plot_data.value, value)

C2_ShockSuppressesIntensity ==
  [][C2_IntensityStep("generator1", "g1", 1) /\ C2_IntensityStep("generator2", "g2", 2)]_vars

\* an intensity event has just been replayed on a shocked, selected channel: the
\* command is remembered and no sample carries it
C2_Witness ==
  /\ AfterEvent
  /\ IsIntensityOf(LastEvent, "generator1")
  /\ state.boost.shockMode /\ state.boost.channels[1]
  /\ state.g1.base_intensity = LastEvent.value.num
  /\ ~HasSample(state.g1.plot_data, Get(LastEvent.ts, 0), LastEvent.value.num)

(***************************************************************************)
(* C3: a fire action at time T appends exactly one marker (T, mask), mask  *)
(* being the override channel mask in force just before the event; no      *)
(* other step changes the marker list, so recorded markers keep their mask.*)
(***************************************************************************)
C3_MarkerStep ==
  IF pc = "loop" /\ IsFireAction(CurrentEvent)
  THEN state'.fire_events =
         Append(state.fire_events,
                [ts |-> Get(CurrentEvent.ts, 0), channels |-> state.boost.channels])
  ELSE state'.fire_events = state.fire_events

C3_MarkerFidelity == [][C3_MarkerStep]_vars

\* a marker recorded under one mask, and the mask changed since
C3_Witness ==
  /\ AfterEvent
  /\ \E i \in 1..Len(state.fire_events) :
       /\ state.fire_events[i].channels # state.boost.channels
       /\ state.fire_events[i].channels # <<FALSE, FALSE>>

(***************************************************************************)
(* C4: in the finalized series and adjust series, samples of the same      *)
(* timestamp keep the order in which the replay appended them: the final   *)
(* sort is a stable sort on the timestamp alone.                           *)
(***************************************************************************)
RECURSIVE InsertByTime(_, _)
InsertByTime(p, s) ==
  IF s = <<>> THEN <<p>>
  ELSE IF p[1] < Head(s)[1] THEN <<p>> \o s
  ELSE <<Head(s)>> \o InsertByTime(p, Tail(s))

\* the samples sorted by time, those of equal time in their order of insertion
RECURSIVE StableByTime(_)
StableByTime(s) ==
  IF s = <<>> THEN <<>>
  ELSE InsertByTime(s[Len(s)], StableByTime(SubSeq(s, 1, Len(s) - 1)))

C4_SortStep ==
  pc = "sort" =>
    \A g \in Generators :
      /\ Samples(state'[g].plot_data) = StableByTime(Samples(state[g].plot_data))
      /\ Samples(state'[g].adjust_plot_data) =
           StableByTime(Samples(state[g].adjust_plot_data))

C4_StableOnTimestamp == [][C4_SortStep]_vars

(***************************************************************************)
(* C5: two event lists that are permutations of each other and keep the    *)
(* relative order of the events of equal timestamp are replayed in the     *)
(* same sequence, ascending in time with the input order breaking ties,    *)
(* and give the same finalized series, adjust series, mode timelines and   *)
(* markers.                                                                *)
(***************************************************************************)
\* the rearrangements of 1..n
Rearrangements(n) ==
  {f \in [1..n -> 1..n] : \A a, b \in 1..n : a # b => f[a] # f[b]}

\* the permutations of a list that keep the relative order of the events of
\* equal timestamp
OrderKeepingPermutations(events) ==
  LET n == Len(events)
  IN  {[k \in 1..n |-> events[f[k]]] :
         f \in {h \in Rearrangements(n) :
                  \A a, b \in 1..n :
                    (a < b /\ events[h[a]].ts = events[h[b]].ts) => h[a] < h[b]}}

\* the events the loop does not drop, in their order of replay
Replayed(events) == SelectSeq(events, LAMBDA e : e.ts # {} /\ e.path # <<>>)

\* ascending in time, the input order breaking ties: all_events lists data.data
\* through a rearrangement that is increasing on (timestamp, input position)
InReplayOrder(sorted, events) ==
  \E f \in Rearrangements(Len(events)) :
    /\ Len(sorted) = Len(events)
    /\ \A k \in 1..Len(events) : sorted[k] = events[f[k]]
    /\ \A a, b \in 1..Len(events) :
         a < b =>
           LET ta == IF events[f[a]].ts = {} THEN 0 ELSE CHOOSE t \in events[f[a]].ts : TRUE
               tb == IF events[f[b]].ts = {} THEN 0 ELSE CHOOSE t \in events[f[b]].ts : TRUE
           IN  ta < tb \/ (ta = tb /\ f[a] < f[b])

C5_ReplayDeterminism ==
  Finalized =>
    /\ InReplayOrder(all_events, data.data)
    /\ \A other \in OrderKeepingPermutations(data.data) :
         /\ Replayed(SortedByTs(other)) = Replayed(all_events)
         /\ ProcessStimulationData([data EXCEPT !.data = other]) = state

\* a finalized run over a list that is not in timestamp order, has two events
\* of one timestamp, recorded a marker, and has a permutation other than itself
C5_Witness ==
  /\ Finalized
  /\ all_events # data.data
  /\ state.fire_events # <<>>
  /\ \E a, b \in 1..Len(data.data) : a < b /\ data.data[a].ts = data.data[b].ts
  /\ \E other \in OrderKeepingPermutations(data.data) :
       other # data.data /\ other # all_events

(***************************************************************************)
(* C6: the session end, in process_stimulation_data and again in           *)
(* plot_stimulation_data, is max(declared duration, maximum timestamp of   *)
(* the raw events, 0), whatever the duration, the timestamps and the list. *)
(***************************************************************************)
SetMax(S) == CHOOSE x \in S : \A y \in S : y <= x

\* max(declared duration, maximum timestamp over all raw events, 0)
C6_SessionEnd(doc) ==
  SetMax({0} \cup doc.metadata.duration
             \cup UNION {doc.data[k].ts : k \in 1..Len(doc.data)})

C6_SessionEndIsMax ==
  /\ pc \in {"extend", "sort", "plot"} => total_duration_ms = C6_SessionEnd(data)
  /\ (pc = "exit" /\ image_written) =>
       /\ total_duration_ms = C6_SessionEnd(data)
       /\ plot_total_duration_ms = C6_SessionEnd(data)

(***************************************************************************)
(* C7: when the input file is missing or is not valid JSON, the program    *)
(* prints a one-line diagnostic, writes no image and exits with a non-zero *)
(* status.                                                                 *)
(***************************************************************************)
C7_InputErrorExit ==
  (pc = "exit" /\ argc >= 3 /\ file.status \in {"missing", "malformed"}) =>
    /\ Len(stdout) = 1
    /\ ~image_written
    /\ exit_status # {} /\ 0 \notin exit_status

(***************************************************************************)
(* C8: an event without timestamp or with an empty path is dropped: the    *)
(* iteration changes nothing and the loop goes on, and the loop ends in    *)
(* the state that replaying the list without the malformed events gives.   *)
(***************************************************************************)
C8_IsMalformed(e) == e.ts = {} \/ e.path = <<>>

C8_WellFormed(events) == SelectSeq(events, LAMBDA e : ~C8_IsMalformed(e))

C8_DropStep ==
  /\ (pc = "loop" /\ C8_IsMalformed(CurrentEvent)) =>
       /\ state' = state
       /\ current_boost_channels' = current_boost_channels
       /\ idx' = idx + 1
       /\ pc' \in {"loop", "bound"}
       /\ exit_status' = exit_status
  /\ (pc = "loop" /\ pc' = "bound") =>
       LET without == [data EXCEPT !.data = C8_WellFormed(data.data)]
       IN  /\ state' = Dispatched(without).state
           /\ current_boost_channels' = Dispatched(without).current_boost_channels

C8_MalformedDropped == [][C8_DropStep]_vars

\* the loop has ended over a list holding an event without timestamp, an event
\* with an empty path and events that changed the state
C8_Witness ==
  /\ pc = "bound"
  /\ \E k \in 1..Len(data.data) : data.data[k].ts = {}
  /\ \E k \in 1..Len(data.data) : data.data[k].path = <<>>
  /\ state # InitialState(data.initialContext)

(***************************************************************************)
(* C9: the first sample of a non-shock fire pulse, the boosted sample, has *)
(* a value of at most 100 whatever base_intensity and offset are.          *)
(***************************************************************************)
C9_BoostStep(g, i) ==
  (/\ pc = "loop"
   /\ IsFireAction(CurrentEvent)
   /\ ~state.boost.shockMode
   /\ state.boost.channels[i]) =>
    LET n == Len(state[g].plot_data.value)
    IN  /\ Len(state'[g].plot_data.value) = n + 2
        /\ state'[g].plot_data.time[n + 1] = Get(CurrentEvent.ts, 0)
        /\ state'[g].plot_data.value[n + 1] <= 100

C9_BoostCeiling == [][C9_BoostStep("g1", 1) /\ C9_BoostStep("g2", 2)]_vars

\* a non-shock fire has just pulsed a channel whose base_intensity + offset
\* exceeds 100, and the boosted sample is at the ceiling
C9_Witness ==
  /\ AfterEvent
  /\ IsFireAction(LastEvent)
  /\ ~state.boost.shockMode /\ state.boost.channels[2]
  /\ state.g2.base_intensity + state.boost.offset > 100
  /\ LET n == Len(state.g2.plot_data.value)
     IN  /\ state.g2.plot_data.time[n - 1] = Get(LastEvent.ts, 0)
         /\ state.g2.plot_data.value[n - 1] = 100

(***************************************************************************)
(* C10: from initialization on, and in the finalized state, each channel's *)
(* series holds the seed (0, initial base_intensity, default 0) and each   *)
(* adjust series the seed (0, initial adjust_value, default 50); no series *)
(* is empty, also for an empty event list.                                 *)
(***************************************************************************)
\* process_stimulation_data has seeded its state
Initialized ==
  pc \in {"loop", "bound", "extend", "sort", "plot"} \/ (pc = "exit" /\ image_written)

ContextOf(g) ==
  IF g = "g1" THEN data.initialContext.generator1 ELSE data.initialContext.generator2

C10_SeedSamples ==
  Initialized =>
    \A g \in Generators :
      /\ HasSample(state[g].plot_data, 0,
                   IF ContextOf(g).intensity = {} THEN 0
                   ELSE CHOOSE v \in ContextOf(g).intensity : TRUE)
      /\ HasSample(state[g].adjust_plot_data, 0,
                   IF ContextOf(g).adjust = {} THEN 50
                   ELSE CHOOSE v \in ContextOf(g).adjust : TRUE)
      /\ Len(state[g].plot_data.time) = Len(state[g].plot_data.value)
      /\ Len(state[g].adjust_plot_data.time) = Len(state[g].adjust_plot_data.value)

\* a finalized run over an empty event list, from a context that gives one
\* channel its values and leaves the other to the defaults
C10_Witness ==
  /\ Finalized
  /\ data.data = <<>>
  /\ data.initialContext.generator1.intensity = {60}
  /\ data.initialContext.generator1.adjust = {40}
  /\ data.initialContext.generator2.adjust = {}
  /\ Samples(state.g1.plot_data) = << <<0, 60>> >>
  /\ Samples(state.g1.adjust_plot_data) = << <<0, 40>> >>
  /\ Samples(state.g2.adjust_plot_data) = << <<0, 50>> >>

(***************************************************************************)
(* C11: after an event has been replayed, a channel that the mask selects  *)
(* while shock mode is active has 0 as the value of the sample appended    *)
(* last to its series, also after a mask update made during the shock and  *)
(* from an initial context that starts in shock mode.                      *)
(***************************************************************************)
C11_ShockedAtZero ==
  AfterEvent =>
    \A i \in 1..2 :
      (state.boost.shockMode /\ state.boost.channels[i]) =>
        Last(state[GenKeys[i]].plot_data.value) = 0


(***************************************************************************)
(* C12: a shockMode event that ends the shock at time ts appends           *)
(* (ts, base_intensity) to the series of every channel the mask selects,   *)
(* base_intensity being the intensity commanded last to the channel, also  *)
(* when it was commanded during the suppression; a channel the mask does   *)
(* not select receives no sample.                                          *)
(***************************************************************************)
IsShockModeEvent(event) ==
  /\ ~Malformed(event)
  /\ Len(event.path) >= 2
  /\ event.path[1] = "boost"
  /\ event.path[2] = "shockMode"

\* the intensity commanded last to the generator by the context and the first
\* n replayed events
RECURSIVE LastCommanded(_, _)
LastCommanded(generator, n) ==
  IF n = 0
  THEN Get(IF generator = "generator1"
           THEN data.initialContext.generator1.intensity
           ELSE data.initialContext.generator2.intensity, 0)
  ELSE IF IsIntensityOf(all_events[n], generator) THEN all_events[n].value.num
  ELSE LastCommanded(generator, n - 1)

C12_ExitStep(generator, g, i) ==
  (/\ pc = "loop"
   /\ IsShockModeEvent(CurrentEvent)
   /\ state.boost.shockMode
   /\ ~CurrentEvent.value.bool) =>
    /\ ~state'.boost.shockMode
    /\ IF state.boost.channels[i]
       THEN /\ state'[g].plot_data.time =
                 Append(state[g].plot_data.time, Get(CurrentEvent.ts, 0))
            /\ state'[g].plot_data.value =
                 Append(state[g].plot_data.value, LastCommanded(generator, idx))
       ELSE state'[g].plot_data = state[g].plot_data

C12_ShockExitRestores ==
  [][C12_ExitStep("generator1", "g1", 1) /\ C12_ExitStep("generator2", "g2", 2)]_vars

\* a shock has just ended on a selected channel that was given a new intensity
\* while it was suppressed: the restoring sample carries that intensity, and the
\* channel outside the mask has its seed only
C12_Witness ==
  /\ AfterEvent
  /\ idx >= 2
  /\ IsShockModeEvent(LastEvent) /\ ~LastEvent.value.bool
  /\ IsIntensityOf(all_events[idx - 1], "generator1")
  /\ data.initialContext.boost.shockMode = {TRUE}
  /\ state.boost.channels = <<TRUE, FALSE>>
  /\ Samples(state.g1.plot_data) =
       << <<0, 60>>, <<Get(LastEvent.ts, 0), all_events[idx - 1].value.num>> >>
  /\ all_events[idx - 1].value.num # 60
  /\ Len(state.g2.plot_data.time) = 1

(***************************************************************************)
(* C13: a shockMode event that starts the shock at time ts appends (ts, 0) *)
(* to the series of every channel the mask selects and leaves its          *)
(* base_intensity as it was; a channel the mask does not select receives   *)
(* no sample; a shockMode event whose value is the current flag appends no *)
(* sample to any series.                                                   *)
(***************************************************************************)
C13_EnterStep(g, i) ==
  (pc = "loop" /\ IsShockModeEvent(CurrentEvent)) =>
    IF ~state.boost.shockMode /\ CurrentEvent.value.bool
    THEN /\ state'.boost.shockMode
         /\ state'[g].base_intensity = state[g].base_intensity
         /\ IF state.boost.channels[i]
            THEN /\ state'[g].plot_data.time =
                      Append(state[g].plot_data.time, Get(CurrentEvent.ts, 0))
                 /\ state'[g].plot_data.value = Append(state[g].plot_data.value, 0)
            ELSE state'[g].plot_data = state[g].plot_data
    ELSE (state.boost.shockMode = CurrentEvent.value.bool) =>
           /\ state'[g] = state[g]
           /\ state'.boost = state.boost

C13_ShockEntrySuppresses == [][C13_EnterStep("g1", 1) /\ C13_EnterStep("g2", 2)]_vars

\* a shock has just started with one channel selected, whose series now ends
\* with a 0 at the event's time under an unchanged non-zero base_intensity,
\* while the other channel, also at a non-zero intensity, received nothing
C13_Witness ==
  /\ AfterEvent
  /\ IsShockModeEvent(LastEvent) /\ LastEvent.value.bool
  /\ data.initialContext.boost.shockMode = {}
  /\ state.boost.shockMode
  /\ state.boost.channels = <<TRUE, FALSE>>
  /\ state.g1.base_intensity > 0
  /\ Last(state.g1.plot_data.value) = 0
  /\ Last(state.g1.plot_data.time) = Get(LastEvent.ts, 0)
  /\ Len(state.g1.plot_data.time) >= 2
  /\ state.g2.base_intensity > 0
  /\ Last(state.g2.plot_data.value) = state.g2.base_intensity

(***************************************************************************)
(* C14: a fire action at time ts replayed while shock mode is inactive     *)
(* appends to the series of every channel the mask selects exactly two     *)
(* samples, (ts, min(100, base_intensity + offset)) and then (ts + 1,      *)
(* prior), prior being the value of the sample appended last before the    *)
(* fire; base_intensity is unchanged and a channel the mask does not       *)
(* select receives no sample.                                              *)
(***************************************************************************)
C14_PulseStep(g, i) ==
  (pc = "loop" /\ IsFireAction(CurrentEvent) /\ ~state.boost.shockMode) =>
    LET ts == Get(CurrentEvent.ts, 0)
        sum == state[g].base_intensity + state.boost.offset
        prior == state[g].plot_data.value[Len(state[g].plot_data.value)]
    IN  /\ state'[g].base_intensity = state[g].base_intensity
        /\ IF state.boost.channels[i]
           THEN Samples(state'[g].plot_data) =
                  Samples(state[g].plot_data)
                    \o << <<ts, IF sum > 100 THEN 100 ELSE sum>>, <<ts + 1, prior>> >>
           ELSE state'[g].plot_data = state[g].plot_data

C14_BoostPulse == [][C14_PulseStep("g1", 1) /\ C14_PulseStep("g2", 2)]_vars

\* a fire has just pulsed, outside a shock, a channel whose last sample differed
\* from its base_intensity (the channel was outside the mask when the shock
\* ended): the pulse is the boosted base value, then the value of that sample
C14_Witness ==
  /\ AfterEvent
  /\ IsFireAction(LastEvent)
  /\ ~state.boost.shockMode /\ state.boost.channels = <<TRUE, FALSE>>
  /\ LET n == Len(state.g1.plot_data.value)
     IN  /\ n >= 3
         /\ state.g1.plot_data.value[n] = state.g1.plot_data.value[n - 2]
         /\ state.g1.plot_data.value[n] # state.g1.base_intensity
         /\ state.g1.plot_data.value[n - 1] = 100
         /\ state.g1.plot_data.time[n - 1] = Get(LastEvent.ts, 0)
         /\ state.g1.plot_data.time[n] = Get(LastEvent.ts, 0) + 1
  /\ Samples(state.g2.plot_data) = << <<0, 90>>, <<1, 90>> >>

(***************************************************************************)
(* C15: a fire action at time ts replayed while shock mode is active       *)
(* appends to the series of every channel the mask selects (ts,            *)
(* base_intensity) and then (ts + pulse_duration in ms, 0), with the       *)
(* base_intensity and the pulse_duration in force at that event; a channel *)
(* the mask does not select receives no sample.                            *)
(***************************************************************************)
C15_ShockPulseStep(g, i) ==
  (pc = "loop" /\ IsFireAction(CurrentEvent) /\ state.boost.shockMode) =>
    LET ts == Get(CurrentEvent.ts, 0)
        \* the duration is in tenths of a second: 100 ms each
        end == ts + state.boost.duration * 100
    IN  IF state.boost.channels[i]
        THEN Samples(state'[g].plot_data) =
               Samples(state[g].plot_data)
                 \o << <<ts, state[g].base_intensity>>, <<end, 0>> >>
        ELSE state'[g].plot_data = state[g].plot_data

C15_ShockPulse == [][C15_ShockPulseStep("g1", 1) /\ C15_ShockPulseStep("g2", 2)]_vars

\* a fire has just pulsed a shocked channel after events changed both its
\* intensity (suppressed) and the pulse duration: the pulse carries the new
\* intensity and ends 300 ms later, and the other channel has its seed only
C15_Witness ==
  /\ AfterEvent
  /\ IsFireAction(LastEvent)
  /\ state.boost.shockMode /\ state.boost.channels = <<TRUE, FALSE>>
  /\ state.boost.duration = 3
  /\ data.initialContext.boost.duration = {2}
  /\ Samples(state.g1.plot_data) =
       << <<0, 60>>, <<Get(LastEvent.ts, 0), 80>>, <<Get(LastEvent.ts, 0) + 300, 0>> >>
  /\ Samples(state.g2.plot_data) = << <<0, 90>> >>

(***************************************************************************)
(* C16: the finalized adjust series of every channel spans the session:    *)
(* its last sample is at the session end and carries the channel's last    *)
(* adjust_value; the extension appends exactly one sample (session end,    *)
(* adjust_value) when the adjust series' last timestamp after the replay   *)
(* is strictly less than the session end, and none otherwise.              *)
(***************************************************************************)
C16_ExtendStep(g) ==
  pc = "extend" =>
    IF Last(state[g].adjust_plot_data.time) < total_duration_ms
    THEN Samples(state'[g].adjust_plot_data) =
           Append(Samples(state[g].adjust_plot_data),
                  <<total_duration_ms, state[g].adjust_value>>)
    ELSE state'[g].adjust_plot_data = state[g].adjust_plot_data

C16_SpansStep(g) ==
  Finalized' =>
    /\ Last(state'[g].adjust_plot_data.time) = total_duration_ms'
    /\ Last(state'[g].adjust_plot_data.value) = state'[g].adjust_value

C16_AdjustSpansSession ==
  [][\A g \in Generators : C16_ExtendStep(g) /\ C16_SpansStep(g)]_vars

(***************************************************************************)
(* C17: before any event is replayed, the mode timeline of a channel holds *)
(* exactly one entry (0, mode) if the initial context gives the channel a  *)
(* mode, whatever the mode identifier, and is empty otherwise.             *)
(***************************************************************************)
C17_InitialModeEntry ==
  (pc \in {"loop", "bound"} /\ idx = 0) =>
    \A g \in Generators :
      state.modes[g] =
        IF ContextOf(g).mode = {} THEN <<>>
        ELSE <<[ts |-> 0, mode |-> CHOOSE v \in ContextOf(g).mode : TRUE]>>

(***************************************************************************)
(* C18: during and after the replay, each channel's mode timeline is the   *)
(* optional initial entry at time 0 followed by one entry per replayed     *)
(* mode event of the channel, in replay order and whatever the override    *)
(* state, and its start times are non-decreasing in that stored order.     *)
(***************************************************************************)
IsModeOf(event, generator) ==
  /\ ~Malformed(event)
  /\ Len(event.path) >= 2
  /\ event.path[1] = generator
  /\ event.path[2] = "mode"

\* the timeline entries of the generator's mode events among the first n events
RECURSIVE ModeEntries(_, _)
ModeEntries(generator, n) ==
  IF n = 0 THEN <<>>
  ELSE IF IsModeOf(all_events[n], generator)
       THEN Append(ModeEntries(generator, n - 1),
                   [ts |-> Get(all_events[n].ts, 0), mode |-> all_events[n].value.num])
       ELSE ModeEntries(generator, n - 1)

C18_TimelineOf(generator, g) ==
  /\ state.modes[g] = InitialState(data.initialContext).modes[g]
                        \o ModeEntries(generator, idx)
  /\ NonDecreasing([k \in 1..Len(state.modes[g]) |-> state.modes[g][k].ts])

C18_ModeTimelineOrdered ==
  (pc \in {"loop", "bound"}) =>
    C18_TimelineOf("generator1", "g1") /\ C18_TimelineOf("generator2", "g2")

(***************************************************************************)
(* C19: an event with a timestamp and a non-empty path that addresses no   *)
(* recognized target (a first segment other than generator1, generator2    *)
(* and boost; a recognized first segment with an unknown or absent second  *)
(* segment; boost fire with a type other than action) is ignored: the      *)
(* replay goes on to the next event and the whole state is unchanged.      *)
(***************************************************************************)
C19_Unrecognized(event) ==
  /\ ~Malformed(event)
  /\ \/ event.path[1] \notin {"generator1", "generator2", "boost"}
     \/ Len(event.path) < 2
     \/ /\ event.path[1] \in {"generator1", "generator2"}
        /\ event.path[2] \notin {"intensity", "mode", "adjust"}
     \/ /\ event.path[1] = "boost"
        /\ event.path[2] \notin {"shockMode", "channels", "duration", "offset", "fire"}
     \/ /\ event.path[1] = "boost"
        /\ event.path[2] = "fire"
        /\ event.type # "action"

C19_IgnoreStep ==
  (pc = "loop" /\ C19_Unrecognized(CurrentEvent)) =>
    /\ state' = state
    /\ current_boost_channels' = current_boost_channels
    /\ idx' = idx + 1
    /\ pc' \in {"loop", "bound"}
    /\ exit_status' = exit_status

C19_UnknownIgnored == [][C19_IgnoreStep]_vars

(***************************************************************************)
(* C20: from the initialization on and after every replayed event, the     *)
(* running copy of the mask equals the override channel mask               *)
(* state.boost.channels; so the channels a fire action flags in its marker *)
(* are exactly the channels whose series receive the pulse samples.        *)
(***************************************************************************)
C20_MaskStep ==
  /\ Initialized' => current_boost_channels' = state'.boost.channels
  /\ (pc = "loop" /\ IsFireAction(CurrentEvent)) =>
       /\ Len(state'.fire_events) = Len(state.fire_events) + 1
       /\ \A i \in 1..2 :
            state'.fire_events[Len(state'.fire_events)].channels[i]
              <=> (state'[GenKeys[i]].plot_data # state[GenKeys[i]].plot_data)

C20_MaskAgreement == [][C20_MaskStep]_vars

\* a fire has just been replayed after a channels event narrowed the mask the
\* initial context gave: the marker flags the first channel only, and only
\* the first channel's series received a pulse
C20_Witness ==
  /\ AfterEvent
  /\ IsFireAction(LastEvent)
  /\ data.initialContext.boost.channels = {<<TRUE, TRUE>>}
  /\ current_boost_channels = <<TRUE, FALSE>>
  /\ state.boost.channels = <<TRUE, FALSE>>
  /\ Len(state.fire_events) = 1
  /\ state.fire_events[1].channels = <<TRUE, FALSE>>
  /\ Len(state.g1.plot_data.time) = 3
  /\ Len(state.g2.plot_data.time) = 1

====
